---------------------------- MODULE Spec2Model ----------------------------
(***************************************************************************)
(* Model of the course-candidate pipeline of osm_backend.py: the Overpass  *)
(* client (overpass_post), the response filter (fetch_trails_relations),   *)
(* the route assembler (relation_to_course), the difficulty classifier,    *)
(* the endpoint matcher and the aggregator (build_courses).                *)
(*                                                                         *)
(* Number representation.  Python floats are modelled by scaled integers:  *)
(*   - a latitude is the arc length along one meridian in decimetres (all  *)
(*     points of the model lie on the meridian lon = 0), so haversine_m    *)
(*     of two points is the absolute difference of their latitudes, in     *)
(*     decimetres;                                                         *)
(*   - distance_km is held in hundredths of a km (round(x, 2));            *)
(*   - scores are held in thousandths (round(x, 3)), trust scores in       *)
(*     hundredths (round(x, 2)), nearest_m in tenths (round(x, 1));        *)
(*   - seconds of the retry loop are held in 1/10000 s.                    *)
(* A Python str is a sequence of tokens, each either the blank " " or a    *)
(* non-blank word; None is an absent key (dict.get) or the empty option.   *)
(***************************************************************************)
EXTENDS Integers, Sequences, FiniteSets, TLC

VARIABLES
    call,       \* arguments of the function under call (harness specifications)
    ret,        \* its result: [done |-> FALSE] before the call returns
    OFFICIAL_MATCH_THRESHOLD_M, \* the module global _OFFICIAL_MATCH_THRESHOLD_M
    pc,         \* overpass_post: "idle" | "request" | "returned" | "raised"
    base,       \* index into OVERPASS_URLS of the endpoint being tried
    attempt,    \* iteration of the inner retry loop, 0 .. max_retries-1
    wait_s,     \* local wait_s, in 1/10000 s
    last_err,   \* local last_err: "None" or the kind of the last exception
    requests,   \* number of requests.post calls made so far
    ev,         \* what the last loop iteration did (history)
    err_sleep_first, \* duration of the first sleep of the except branch (history)
    max_retries, \* parameter max_retries of overpass_post
    caller,     \* "build_courses" | "direct": who called overpass_post
    max_relations, \* build_courses' parameter, used when caller = "build_courses"
    outcome     \* what the caller got: nothing yet, a return value or an exception

vars == <<call, ret, OFFICIAL_MATCH_THRESHOLD_M, pc, base, attempt, wait_s,
          last_err, requests, ev, err_sleep_first, max_retries, caller,
          max_relations, outcome>>

overpass_vars == <<pc, base, attempt, wait_s, last_err, requests, ev,
                   err_sleep_first, max_retries, caller, max_relations, outcome>>

-----------------------------------------------------------------------------
(* Arithmetic helpers *)

Min(a, b) == IF a <= b THEN a ELSE b

Max(a, b) == IF a >= b THEN a ELSE b

Abs(x) == IF x < 0 THEN -x ELSE x

\* Python round(): n/d to the nearest integer, an exact tie to the even one.
RoundDiv(n, d) ==
    LET q == n \div d
        r == n % d
    IN  IF 2 * r < d THEN q
        ELSE IF 2 * r > d THEN q + 1
        ELSE IF q % 2 = 0 THEN q ELSE q + 1

\* Optional values: None is the empty option.
None == << >>

Some(v) == <<v>>

-----------------------------------------------------------------------------
(* Strings *)

BLANK == " "

RECURSIVE lstrip(_)
lstrip(s) ==
    IF s # << >> /\ Head(s) = BLANK THEN lstrip(Tail(s)) ELSE s

RECURSIVE rstrip(_)
rstrip(s) ==
    IF s # << >> /\ s[Len(s)] = BLANK THEN rstrip(SubSeq(s, 1, Len(s) - 1)) ELSE s

\* str.strip()
strip(s) == rstrip(lstrip(s))

Truthy(s) == Len(s) > 0

EmptyDict == << >>

\* d.get(k) or {} for a dict-valued key
GetDict(d, k) == IF k \in DOMAIN d THEN d[k] ELSE EmptyDict

_safe_get(d, k, default) == IF k \in DOMAIN d THEN strip(d[k]) ELSE default

-----------------------------------------------------------------------------
(* Geo utilities *)

\* Great-circle distance, in decimetres, of two points of the meridian lon = 0.
haversine_m(lat1, lon1, lat2, lon2) == Abs(lat2 - lat1)

RECURSIVE PathLength(_, _)
PathLength(latlon, i) ==
    IF i > Len(latlon) THEN 0
    ELSE haversine_m(latlon[i - 1][1], latlon[i - 1][2], latlon[i][1], latlon[i][2])
         + PathLength(latlon, i + 1)

\* polyline_length_km, in decimetres
polyline_length_km(latlon) == IF Len(latlon) < 2 THEN 0 ELSE PathLength(latlon, 2)

-----------------------------------------------------------------------------
(* Difficulty classifier *)

EASY == "easy"          \* the label the source spells in Korean: easy

MODERATE == "moderate"  \* moderate

HARD == "hard"          \* hard

HardGrades == { <<"demanding_mountain_hiking">>, <<"alpine_hiking">>,
                <<"demanding_alpine_hiking">>, <<"difficult_alpine_hiking">> }

_difficulty_from_sac(sac0) ==
    LET sac == strip(sac0)
    IN  IF sac = <<"hiking">> THEN EASY
        ELSE IF sac = <<"mountain_hiking">> THEN MODERATE
        ELSE IF sac \in HardGrades THEN HARD
        ELSE ""

\* difficulty_label with the length looked at before the hint.
difficulty_label_length_first(sac_hint, distance_km) ==
    LET d == _difficulty_from_sac(sac_hint)
    IN  IF distance_km < 500 THEN EASY
        ELSE IF d # "" THEN d
        ELSE IF distance_km < 1000 THEN MODERATE
        ELSE HARD

\* difficulty_label with both length bounds counted to the lower tier.
difficulty_label_inclusive(sac_hint, distance_km) ==
    LET d == _difficulty_from_sac(sac_hint)
    IN  IF d # "" THEN d
        ELSE IF distance_km <= 500 THEN EASY
        ELSE IF distance_km <= 1000 THEN MODERATE
        ELSE HARD

\* distance_km in hundredths of a km
difficulty_label(sac_hint, distance_km) ==
    LET d == _difficulty_from_sac(sac_hint)
    IN  IF d # "" THEN d
        ELSE IF distance_km < 500 THEN EASY
        ELSE IF distance_km < 1000 THEN MODERATE
        ELSE HARD

-----------------------------------------------------------------------------
(* Endpoint matcher *)

DEFAULT_THRESHOLD_M == 250

\* The setter without its lower bound.
set_official_match_threshold_unclamped(threshold_m) == threshold_m

\* set_official_match_threshold: the new value of the global
set_official_match_threshold(threshold_m) == Max(10, threshold_m)

\* best_nearest starts at 1e18; the model's distances are far below this value
\* (held in half decimetres: the sums d1 and d2 before their division by 2.0)
BEST_NEAREST_INIT == 1000000000

\* The two orientations of one record, as the undivided sums (half decimetres).
ForwardSum(s, e, r) ==
    haversine_m(s[1], s[2], r.start_lat, r.start_lon)
    + haversine_m(e[1], e[2], r.end_lat, r.end_lon)

ReversedSum(s, e, r) ==
    haversine_m(s[1], s[2], r.end_lat, r.end_lon)
    + haversine_m(e[1], e[2], r.start_lat, r.start_lon)

\* RecordNearest without the reversed orientation.
RecordNearestForward(s, e, r) == ForwardSum(s, e, r)

\* nearest = min(d1, d2) of one record, in half decimetres
RecordNearest(s, e, r) == Min(ForwardSum(s, e, r), ReversedSum(s, e, r))

\* Nearer with ties replacing the record held so far.
NearerOrEqual(nearest, best_nearest) == nearest <= best_nearest

\* if nearest < best_nearest: the record replaces the one held so far
Nearer(nearest, best_nearest) == nearest < best_nearest

\* The scan of the index: <<best_nearest, best_name>> after records i .. Len.
RECURSIVE ScanIndex(_, _, _, _, _)
ScanIndex(s, e, index, i, best) ==
    IF i > Len(index) THEN best
    ELSE LET nearest == RecordNearest(s, e, index[i])
         IN  ScanIndex(s, e, index, i + 1,
                       IF Nearer(nearest, best[1])
                       THEN <<nearest, Some(index[i].name)>>
                       ELSE best)

\* The alternate linear bonus, from 30 at distance 0 down to 0 at the threshold.
TrustScoreFromZero(best2, th) == RoundDiv(3000 * (20 * th - best2), 20 * th)

\* trust = 5.0 + (th - best_nearest) / th * 25.0, rounded to 2 decimals
\* (hundredths); best2 is best_nearest in half decimetres, th is in metres.
TrustScore(best2, th) ==
    RoundDiv(500 * (20 * th) + 2500 * (20 * th - best2), 20 * th)

\* The threshold test with the boundary excluded.
WithinThresholdStrict(best2, th) == best2 < 20 * th

\* best_nearest <= th
WithinThreshold(best2, th) == best2 <= 20 * th

\* round(best_nearest, 1), in tenths of a metre
NearestM(best2) == RoundDiv(best2, 2)

\* th is the value of the global read at the end of the scan.
match_official_by_endpoints(course_start, course_end, official_index, th) ==
    IF Len(official_index) = 0
    THEN [matched |-> FALSE, trust_score |-> 0, nearest_m |-> None,
          official_name |-> None]
    ELSE LET best == ScanIndex(course_start, course_end, official_index, 1,
                               <<BEST_NEAREST_INIT, None>>)
         IN  IF WithinThreshold(best[1], th)
             THEN [matched |-> TRUE, trust_score |-> TrustScore(best[1], th),
                   nearest_m |-> Some(NearestM(best[1])), official_name |-> best[2]]
             ELSE [matched |-> FALSE, trust_score |-> 0,
                   nearest_m |-> Some(NearestM(best[1])), official_name |-> best[2]]

-----------------------------------------------------------------------------
(* Route assembler *)

STITCH_THRESHOLD == 50  \* 5 m in decimetres

MIN_ROUTE_KM == 100     \* 1.0 km in hundredths

MAX_ROUTE_KM == 3500    \* 35.0 km in hundredths

HasLatLon(p) == "lat" \in DOMAIN p /\ "lon" \in DOMAIN p

\* pts of one member: the points of its geometry that carry lat and lon
MemberPts(m) ==
    LET geom == IF "geometry" \in DOMAIN m THEN m.geometry ELSE << >>
        kept == SelectSeq(geom, HasLatLon)
    IN  [i \in 1 .. Len(kept) |-> <<kept[i].lat, kept[i].lon>>]

\* Extend without the joint test: every point of the member is appended.
ExtendNoDrop(latlon, pts) == latlon \o pts

\* One member with at least 2 points appended to the running polyline.
Extend(latlon, pts) ==
    IF latlon # << >>
    THEN IF haversine_m(latlon[Len(latlon)][1], latlon[Len(latlon)][2],
                        pts[1][1], pts[1][2]) < STITCH_THRESHOLD
         THEN latlon \o Tail(pts)
         ELSE latlon \o pts
    ELSE latlon \o pts

RECURSIVE Stitch(_, _, _)
Stitch(members, i, latlon) ==
    IF i > Len(members) THEN latlon
    ELSE LET pts == MemberPts(members[i])
         IN  Stitch(members, i + 1,
                    IF Len(pts) >= 2 THEN Extend(latlon, pts) ELSE latlon)

\* dist_km = round(polyline_length_km(latlon), 2), in hundredths of a km
RoundedKm(latlon) == RoundDiv(polyline_length_km(latlon), 100)

\* LengthRejected with the bounds themselves rejected.
LengthRejectedInclusive(latlon) ==
    RoundedKm(latlon) <= MIN_ROUTE_KM \/ RoundedKm(latlon) >= MAX_ROUTE_KM

\* dist_km < 1.0 or dist_km > 35.0
LengthRejected(latlon) ==
    RoundedKm(latlon) < MIN_ROUTE_KM \/ RoundedKm(latlon) > MAX_ROUTE_KM

\* <<x, log1p(x)>>: x in hundredths, log1p(x) in millionths
LOG1P_TABLE ==
    { <<0, 0>>, <<100, 693147>>, <<120, 788457>>, <<200, 1098612>>, <<220, 1163151>>,
      <<297, 1378766>>, <<298, 1381282>>, <<299, 1383791>>, <<300, 1386294>>, <<301, 1388791>>,
      <<319, 1432701>>, <<320, 1435085>>, <<339, 1479329>>, <<398, 1605430>>, <<399, 1607436>>,
      <<400, 1609438>>, <<401, 1611436>>, <<418, 1644805>>, <<419, 1646734>>, <<420, 1648659>>,
      <<421, 1650580>>, <<439, 1684545>>, <<495, 1783391>>, <<496, 1785070>>, <<497, 1786747>>,
      <<498, 1788421>>, <<499, 1790091>>, <<500, 1791759>>, <<501, 1793425>>, <<502, 1795087>>,
      <<518, 1821318>>, <<519, 1822935>>, <<520, 1824549>>, <<521, 1826161>>, <<538, 1853168>>,
      <<539, 1854734>>, <<540, 1856298>>, <<558, 1884035>>, <<597, 1941615>>, <<598, 1943049>>,
      <<599, 1944481>>, <<600, 1945910>>, <<601, 1947338>>, <<617, 1969906>>, <<618, 1971299>>,
      <<619, 1972691>>, <<620, 1974081>>, <<638, 1998774>>, <<639, 2000128>>, <<698, 2076938>>,
      <<699, 2078191>>, <<700, 2079442>>, <<799, 2196113>>, <<800, 2197225>>, <<801, 2198335>>,
      <<819, 2218116>>, <<820, 2219203>>, <<899, 2301585>>, <<900, 2302585>>, <<901, 2303585>>,
      <<919, 2321407>>, <<920, 2322388>>, <<939, 2340844>>, <<998, 2396075>>, <<999, 2396986>>,
      <<1000, 2397895>>, <<1001, 2398804>>, <<1002, 2399712>>, <<1018, 2414126>>, <<1019, 2415021>>,
      <<1020, 2415914>>, <<1038, 2431857>>, <<1097, 2482404>>, <<1098, 2483239>>, <<1099, 2484073>>,
      <<1100, 2484907>>, <<1101, 2485740>>, <<1118, 2499795>>, <<1119, 2500616>>, <<1300, 2639057>>,
      <<1399, 2707383>>, <<1400, 2708050>>, <<1401, 2708717>>, <<1419, 2720637>>, <<1499, 2771964>>,
      <<1500, 2772589>>, <<3500, 3583519>> }

\* math.log1p(x) in millionths, x given in hundredths; LOG1P_TABLE lists the
\* arguments the model's inputs reach (a lookup outside it is an error).
Log1pMicro(x100) == (CHOOSE p \in LOG1P_TABLE : p[1] = x100)[2]

\* score_osm = round(log1p(len(members)) * 0.8 + log1p(dist_km) * 0.6, 3),
\* in thousandths
ScoreOsm(n_members, dist_km) ==
    RoundDiv(8 * Log1pMicro(100 * n_members) + 6 * Log1pMicro(dist_km), 10000)

\* The dict relation_to_course returns for an accepted polyline.
CourseOf(name, sac, members, latlon, official_index, th) ==
    LET dist_km == RoundedKm(latlon)
        start == latlon[1]
        end == latlon[Len(latlon)]
        score_osm == ScoreOsm(Len(members), dist_km)
        m == match_official_by_endpoints(start, end, official_index, th)
    IN  [course_id |-> <<name, dist_km>>,
         name |-> name,
         distance_km |-> dist_km,
         difficulty |-> difficulty_label(sac, dist_km),
         score |-> score_osm + 10 * m.trust_score,
         score_osm |-> score_osm,
         trust_score |-> m.trust_score,
         official_matched |-> m.matched,
         official_nearest_m |-> m.nearest_m,
         official_name |-> m.official_name,
         coords |-> latlon,
         start_lat |-> start[1], start_lon |-> start[2],
         end_lat |-> end[1], end_lon |-> end[2],
         members |-> Len(members)]

\* None, or Some(course); th is the threshold global at the time of the call.
relation_to_course(rel, official_index, th) ==
    LET tags == GetDict(rel, "tags")
        name == _safe_get(tags, "name", << >>)
        sac == _safe_get(tags, "sac_scale", << >>)
        members == IF "members" \in DOMAIN rel THEN rel.members ELSE << >>
        latlon == Stitch(members, 1, << >>)
    IN  IF ~Truthy(name) THEN None
        ELSE IF Len(latlon) < 2 THEN None
        ELSE IF LengthRejected(latlon) THEN None
        ELSE Some(CourseOf(name, sac, members, latlon, official_index, th))

-----------------------------------------------------------------------------
(* Response filter of fetch_trails_relations *)

IsRelation(el) == "type" \in DOMAIN el /\ el.type = "relation"

\* (r.get("tags") or {}).get("name") is truthy
HasName(r) ==
    LET tags == GetDict(r, "tags")
    IN  "name" \in DOMAIN tags /\ Truthy(tags.name)

\* seq[:n]
SliceTo(seq, n) ==
    IF n >= 0 THEN SubSeq(seq, 1, Min(n, Len(seq)))
    ELSE SubSeq(seq, 1, Max(Len(seq) + n, 0))

\* PreferNamed without the preference: every relation is kept.
PreferNamedNoFilter(rels) == rels

\* rels_named if rels_named else rels
PreferNamed(rels) ==
    LET rels_named == SelectSeq(rels, HasName)
    IN  IF rels_named # << >> THEN rels_named ELSE rels

\* fetch_trails_relations once overpass_post has returned data
fetch_trails_relations(data, max_rel) ==
    LET elements == IF "elements" \in DOMAIN data THEN data.elements ELSE << >>
        rels == SelectSeq(elements, IsRelation)
    IN  SliceTo(PreferNamed(rels), max_rel)

-----------------------------------------------------------------------------
(* Aggregator *)

\* key(a) >= key(b) for the key (score, distance_km)
KeyGE(a, b) ==
    \/ a.score > b.score
    \/ a.score = b.score /\ a.distance_km >= b.distance_km

\* c placed into a descending list behind every entry whose key is >= its own
RECURSIVE InsertDesc(_, _)
InsertDesc(sorted, c) ==
    IF sorted = << >> THEN <<c>>
    ELSE IF KeyGE(Head(sorted), c) THEN <<Head(sorted)>> \o InsertDesc(Tail(sorted), c)
    ELSE <<c>> \o sorted

\* courses.sort(key=(score, distance_km), reverse=True): stable, descending
RECURSIVE SortDesc(_, _, _)
SortDesc(courses, i, acc) ==
    IF i > Len(courses) THEN acc
    ELSE SortDesc(courses, i + 1, InsertDesc(acc, courses[i]))

\* SortCourses left out: the courses stay in raw order.
SortCoursesNone(courses) == courses

SortCourses(courses) == SortDesc(courses, 1, << >>)

\* the first entry of each name, in order of first appearance
RECURSIVE Dedup(_, _, _)
Dedup(courses, i, acc) ==
    IF i > Len(courses) THEN acc
    ELSE Dedup(courses, i + 1,
               IF \E k \in 1 .. Len(acc) : acc[k].name = courses[i].name
               THEN acc
               ELSE Append(acc, courses[i]))

\* The courses relation_to_course yields for rels, in order.
RECURSIVE CoursesOf(_, _, _, _)
CoursesOf(rels, i, official_index, th) ==
    IF i > Len(rels) THEN << >>
    ELSE relation_to_course(rels[i], official_index, th)
         \o CoursesOf(rels, i + 1, official_index, th)

\* build_courses once fetch_trails_relations has returned rels
build_courses(rels, official_index, th) ==
    Dedup(SortCourses(CoursesOf(rels, 1, official_index, th)), 1, << >>)

-----------------------------------------------------------------------------
(* Inputs *)

MaxMembers == 2

\* All sequences over S of length at most n
SeqsUpTo(S, n) == UNION { [1 .. k -> S] : k \in 0 .. n }

Pt(lat) == [lat |-> lat, lon |-> 0]

Way(lats) == [type |-> "way", geometry |-> [i \in 1 .. Len(lats) |-> Pt(lats[i])]]

\* Member ways (latitudes in decimetres): lengths around the 1.0 km and
\* 35.0 km bounds, pieces that continue the way 0 .. 1000 m with a gap of
\* 0 m, 4 m forward, 4 m backward and exactly 5 m, and degenerate members.
W990 == Way(<<0, 9900>>)
W994 == Way(<<0, 9940>>)
W996 == Way(<<0, 9960>>)
W1000 == Way(<<0, 10000>>)
W35000 == Way(<<0, 350000>>)
W35004 == Way(<<0, 350040>>)
W35006 == Way(<<0, 350060>>)
Cont0 == Way(<<10000, 20000>>)
Cont4 == Way(<<10040, 20000>>)
ContBack4 == Way(<<9960, 20000>>)
Cont5 == Way(<<10050, 21003, 20000>>)
Long3 == Way(<<20000, 30000, 50000>>)
OnePoint == Way(<<0>>)
NoPoints == Way(<< >>)
NoLatPoint == [type |-> "way", geometry |-> <<[lon |-> 0], Pt(0), Pt(10000)>>]
NoGeometry == [type |-> "node"]

MemberPool == { W990, W994, W996, W1000, W35000, W35004, W35006, Cont0, Cont4,
                ContBack4, Cont5, Long3, OnePoint, NoPoints, NoLatPoint, NoGeometry }

NameA == <<"A">>

NameB == <<"B">>

TagsPool == { [name |-> NameA],
              [name |-> <<" ", "A", " ">>, sac_scale |-> <<"hiking">>],
              [name |-> <<" ">>],
              [name |-> << >>],
              [sac_scale |-> <<"mountain_hiking">>] }

\* An authoritative record from start to end (metres are given in decimetres)
Rec(name, start, end) ==
    [name |-> name, start_lat |-> start, start_lon |-> 0,
     end_lat |-> end, end_lon |-> 0]

RouteIndexPool == { << >>, <<Rec(<<"Track">>, 20000, 10000)>> }

RouteRels ==
    { [type |-> "relation", tags |-> t, members |-> ms] :
          t \in TagsPool, ms \in SeqsUpTo(MemberPool, MaxMembers) }
    \cup { [type |-> "relation", members |-> ms] : ms \in SeqsUpTo(MemberPool, 1) }
    \cup { [type |-> "relation", tags |-> [name |-> NameA]] }

NoRet == [done |-> FALSE]

Returned(v) == [done |-> TRUE, value |-> v]

\* overpass_post is not running
OverpassIdle ==
    /\ pc = "idle"
    /\ base = 1
    /\ attempt = 0
    /\ wait_s = 0
    /\ last_err = "None"
    /\ requests = 0
    /\ ev = [kind |-> "none"]
    /\ err_sleep_first = 0
    /\ max_retries = 0
    /\ caller = "direct"
    /\ max_relations = 0
    /\ outcome = [kind |-> "none"]

-----------------------------------------------------------------------------
(* relation_to_course on one relation *)

InitRoute ==
    /\ call \in { [fn |-> "relation_to_course", rel |-> r, official_index |-> ix] :
                      r \in RouteRels, ix \in RouteIndexPool }
    /\ ret = NoRet
    /\ OFFICIAL_MATCH_THRESHOLD_M = DEFAULT_THRESHOLD_M
    /\ OverpassIdle

CallRelationToCourse ==
    /\ call.fn = "relation_to_course"
    /\ ~ret.done
    /\ ret' = Returned(relation_to_course(call.rel, call.official_index,
                                          OFFICIAL_MATCH_THRESHOLD_M))
    /\ UNCHANGED <<call, OFFICIAL_MATCH_THRESHOLD_M, overpass_vars>>

NextRoute == CallRelationToCourse

SpecRoute == InitRoute /\ [][NextRoute]_vars

-----------------------------------------------------------------------------
(* difficulty_label on one hint and one length *)

MaxDistKm == 12

\* Lengths in hundredths of a km: every whole km up to the bound, 0.01 km
\* above it and 0.01 km below the next
DistancePool == { 100 * k + o : k \in 0 .. MaxDistKm, o \in {0, 1, 99} }

HintPool == { << >>, <<"hiking">>, <<"mountain_hiking">> } \cup HardGrades
            \cup { <<"T1">>, <<"Hiking">>, <<" ", "alpine_hiking">> }

InitDifficulty ==
    /\ call \in { [fn |-> "difficulty_label", sac_hint |-> h, distance_km |-> d] :
                      h \in HintPool, d \in DistancePool }
    /\ ret = NoRet
    /\ OFFICIAL_MATCH_THRESHOLD_M = DEFAULT_THRESHOLD_M
    /\ OverpassIdle

CallDifficultyLabel ==
    /\ call.fn = "difficulty_label"
    /\ ~ret.done
    /\ ret' = Returned(difficulty_label(call.sac_hint, call.distance_km))
    /\ UNCHANGED <<call, OFFICIAL_MATCH_THRESHOLD_M, overpass_vars>>

NextDifficulty == CallDifficultyLabel

SpecDifficulty == InitDifficulty /\ [][NextDifficulty]_vars

-----------------------------------------------------------------------------
(* fetch_trails_relations on one response *)

MaxElements == 3

RelationA == [type |-> "relation", id |-> 1, tags |-> [name |-> NameA]]

RelationB == [type |-> "relation", id |-> 2, tags |-> [name |-> NameB]]

RelationBlankName == [type |-> "relation", id |-> 3, tags |-> [name |-> <<" ">>]]

RelationEmptyName == [type |-> "relation", id |-> 4, tags |-> [name |-> << >>]]

RelationNoTags == [type |-> "relation", id |-> 5]

ElementPool == { RelationA, RelationB, RelationBlankName, RelationEmptyName,
                 RelationNoTags, [type |-> "way", id |-> 6], [id |-> 7] }

ResponsePool == { [elements |-> els] : els \in SeqsUpTo(ElementPool, MaxElements) }
                \cup { [remark |-> "runtime error"] }

InitFetch ==
    /\ call \in { [fn |-> "fetch_trails_relations", data |-> d, max_relations |-> n] :
                      d \in ResponsePool, n \in -1 .. MaxElements + 1 }
    /\ ret = NoRet
    /\ OFFICIAL_MATCH_THRESHOLD_M = DEFAULT_THRESHOLD_M
    /\ OverpassIdle

CallFetchTrailsRelations ==
    /\ call.fn = "fetch_trails_relations"
    /\ ~ret.done
    /\ ret' = Returned(fetch_trails_relations(call.data, call.max_relations))
    /\ UNCHANGED <<call, OFFICIAL_MATCH_THRESHOLD_M, overpass_vars>>

NextFetch == CallFetchTrailsRelations

SpecFetch == InitFetch /\ [][NextFetch]_vars

-----------------------------------------------------------------------------
(* build_courses on one list of fetched relations *)

MaxRels == 3

BuildRel(name, ms) == [type |-> "relation", tags |-> [name |-> name], members |-> ms]

\* Relations named A (one of them with a padded name) whose scores differ,
\* two that tie on the score and differ in length (6.98 km and 6.99 km), one
\* named B, one rejected for its length and one without a name.
BuildRelPool ==
    { BuildRel(NameA, <<W1000>>),
      BuildRel(NameA, <<W1000, Cont0>>),
      BuildRel(NameA, <<Cont0>>),
      BuildRel(<<" ", "A">>, <<Way(<<0, 69800>>)>>),
      BuildRel(NameA, <<Way(<<0, 69900>>)>>),
      BuildRel(NameB, <<Long3>>),
      BuildRel(NameA, <<W990>>),
      [type |-> "relation", members |-> <<Long3>>] }

BuildIndexPool == { << >>, <<Rec(<<"Track">>, 10000, 20000)>> }

InitBuild ==
    /\ call \in { [fn |-> "build_courses", rels |-> rs, official_index |-> ix] :
                      rs \in SeqsUpTo(BuildRelPool, MaxRels), ix \in BuildIndexPool }
    /\ ret = NoRet
    /\ OFFICIAL_MATCH_THRESHOLD_M = DEFAULT_THRESHOLD_M
    /\ OverpassIdle

CallBuildCourses ==
    /\ call.fn = "build_courses"
    /\ ~ret.done
    /\ ret' = Returned(build_courses(call.rels, call.official_index,
                                     OFFICIAL_MATCH_THRESHOLD_M))
    /\ UNCHANGED <<call, OFFICIAL_MATCH_THRESHOLD_M, overpass_vars>>

NextBuild == CallBuildCourses

SpecBuild == InitBuild /\ [][NextBuild]_vars

-----------------------------------------------------------------------------
(* match_official_by_endpoints on one candidate, with the threshold global *)
(* set at any time                                                         *)

MaxIndex == 2

\* Endpoint latitudes (decimetres): 0 m, 100 m, 250 m, 260 m, 500 m, 1000 m
PosPool == { 0, 1000, 2500, 2600, 5000, 10000 }

RecPool == { Rec(<<"R1">>, 0, 5000), Rec(<<"R2">>, 5000, 0),
             Rec(<<"R3">>, 10000, 10000), Rec(<<"R4">>, 2500, 5000) }

\* Arguments of the setter: the clamp turns -5 and 0 into 10; 249 puts a
\* nearest distance of 250 m one metre beyond the threshold.
ThresholdArgs == { -5, 0, 100, 249, 250, 400 }

InitMatch ==
    /\ call \in { [fn |-> "match_official_by_endpoints", course_start |-> <<s, 0>>,
                   course_end |-> <<e, 0>>, official_index |-> ix] :
                      s \in PosPool, e \in PosPool, ix \in SeqsUpTo(RecPool, MaxIndex) }
    /\ ret = NoRet
    /\ OFFICIAL_MATCH_THRESHOLD_M = DEFAULT_THRESHOLD_M
    /\ OverpassIdle

SetThreshold ==
    /\ call.fn = "match_official_by_endpoints"
    /\ \E threshold_m \in ThresholdArgs :
           OFFICIAL_MATCH_THRESHOLD_M' = set_official_match_threshold(threshold_m)
    /\ UNCHANGED <<call, ret, overpass_vars>>

\* ret.th records the value of the global the call read
CallMatch ==
    /\ call.fn = "match_official_by_endpoints"
    /\ ~ret.done
    /\ ret' = [done |-> TRUE,
               value |-> match_official_by_endpoints(call.course_start, call.course_end,
                             call.official_index, OFFICIAL_MATCH_THRESHOLD_M),
               th |-> OFFICIAL_MATCH_THRESHOLD_M]
    /\ UNCHANGED <<call, OFFICIAL_MATCH_THRESHOLD_M, overpass_vars>>

NextMatch == SetThreshold \/ CallMatch

SpecMatch == InitMatch /\ [][NextMatch]_vars

-----------------------------------------------------------------------------
(* overpass_post, one loop iteration per response, called directly or by *)
(* build_courses through fetch_trails_relations                          *)

OVERPASS_URLS == <<"https://overpass-api.de/api/interpreter",
                   "https://overpass.kumi.systems/api/interpreter",
                   "https://overpass.nchc.org.tw/api/interpreter">>

DEFAULT_MAX_RETRIES == 3

MaxRetries == 4

WAIT_START == 20000         \* wait_s = 2.0

WAIT_CAP_429 == 200000      \* min(wait_s * 2, 20.0)

ERR_SLEEP_CAP == 100000     \* min(wait_s, 10.0)

ERR_WAIT_CAP == 150000      \* min(wait_s * 1.6, 15.0)

\* The Retry-After header of a 429 response: absent (or empty), not a number
\* (an HTTP date), a number of seconds, or "inf"
RetryAfterPool ==
    { [kind |-> "absent", v |-> 0], [kind |-> "unparseable", v |-> 0],
      [kind |-> "seconds", v |-> 10000], [kind |-> "seconds", v |-> 70000],
      [kind |-> "seconds", v |-> 300000], [kind |-> "inf", v |-> 0] }

\* What makes the try block raise on a response that is no 429: requests.post
\* raises, raise_for_status raises, r.json() raises
FailurePool == { "Timeout", "ConnectionError", "HTTPError", "JSONDecodeError" }

\* The bodies a successful response carries
DataPool ==
    { [elements |-> << >>],
      [remark |-> "runtime error"],
      [elements |-> <<BuildRel(NameA, <<W1000>>), [type |-> "way", id |-> 6]>>],
      [elements |-> <<BuildRel(NameA, <<W1000>>), RelationNoTags,
                      BuildRel(NameA, <<W1000, Cont0>>)>>] }

\* wait_s = max(wait_s, float(ra)) when the header is there and parses
WaitWithRetryAfter(w, ra) == IF ra.kind = "seconds" THEN Max(w, ra.v) ELSE w

\* wait_s after a 429 without the cap.
Next429WaitUncapped(slept) == slept * 2

\* wait_s = min(wait_s * 2, 20.0)
Next429Wait(slept) == Min(slept * 2, WAIT_CAP_429)

\* The sleep of the except branch without its cap.
ErrSleepUncapped(w) == w

\* time.sleep(min(wait_s, 10.0))
ErrSleep(w) == Min(w, ERR_SLEEP_CAP)

\* wait_s = min(wait_s * 1.6, 15.0)
NextErrWait(w) == Min((w * 16) \div 10, ERR_WAIT_CAP)

Raise(exc) == [kind |-> "raise", exc |-> exc]

Return(v) == [kind |-> "return", value |-> v]

\* The end of overpass_post with an empty body returned in place of the raise.
ExhaustedReturnsEmpty(err) == Return([elements |-> << >>])

\* The end of overpass_post once every endpoint used up its retries
Exhausted(err) == IF err # "None" THEN Raise(err) ELSE Raise("RuntimeError")

\* What the caller of overpass_post makes of its result: build_courses (with
\* no official index, as cached_courses calls it) lets an exception through
\* and otherwise builds the courses of the response's relations.
CallerOutcome(result) ==
    IF result.kind = "raise" THEN result
    ELSE IF caller = "build_courses"
         THEN Return(build_courses(fetch_trails_relations(result.value, max_relations),
                                   << >>, OFFICIAL_MATCH_THRESHOLD_M))
         ELSE result

NoEvent == [kind |-> "none", base |-> 0, attempt |-> 0, wait_before |-> 0,
            slept |-> 0, ra |-> [kind |-> "absent", v |-> 0],
            prev_kind |-> "none", prev_slept |-> 0]

\* The event of this iteration; the previous one counts only on the same endpoint
Event(kind, slept, ra) ==
    [kind |-> kind, base |-> base, attempt |-> attempt, wait_before |-> wait_s,
     slept |-> slept, ra |-> ra,
     prev_kind |-> IF attempt = 0 THEN "none" ELSE ev.kind,
     prev_slept |-> IF attempt = 0 THEN 0 ELSE ev.slept]

InitOverpass ==
    /\ call = [fn |-> "overpass_post"]
    /\ ret = NoRet
    /\ OFFICIAL_MATCH_THRESHOLD_M = DEFAULT_THRESHOLD_M
    /\ pc = "idle"
    /\ base = 1
    /\ attempt = 0
    /\ wait_s = 0
    /\ last_err = "None"
    /\ requests = 0
    /\ ev = NoEvent
    /\ err_sleep_first = 0
    /\ \/ caller = "direct" /\ max_retries \in 0 .. MaxRetries /\ max_relations = 0
       \/ caller = "build_courses" /\ max_retries = DEFAULT_MAX_RETRIES
          /\ max_relations \in 1 .. 2
    /\ outcome = [kind |-> "none"]

\* The call: the loops run no iteration when max_retries is 0
OverpassCall ==
    /\ pc = "idle"
    /\ IF max_retries = 0
       THEN /\ pc' = "raised"
            /\ outcome' = CallerOutcome(Exhausted(last_err))
            /\ UNCHANGED wait_s
       ELSE /\ pc' = "request"
            /\ wait_s' = WAIT_START
            /\ UNCHANGED outcome
    /\ UNCHANGED <<call, ret, OFFICIAL_MATCH_THRESHOLD_M, base, attempt, last_err,
                   requests, ev, err_sleep_first, max_retries, caller, max_relations>>

\* Advance with the wait carried over to the next endpoint.
AdvanceNoRestart(w, err) ==
    IF attempt + 1 < max_retries
    THEN /\ attempt' = attempt + 1
         /\ wait_s' = w
         /\ UNCHANGED <<base, pc, outcome>>
    ELSE IF base < Len(OVERPASS_URLS)
    THEN /\ base' = base + 1
         /\ attempt' = 0
         /\ wait_s' = w
         /\ UNCHANGED <<pc, outcome>>
    ELSE /\ pc' = "raised"
         /\ outcome' = CallerOutcome(Exhausted(err))
         /\ wait_s' = w
         /\ UNCHANGED <<base, attempt>>

\* The loop control after a failed iteration that leaves wait_s = w, last_err = err
Advance(w, err) ==
    IF attempt + 1 < max_retries
    THEN /\ attempt' = attempt + 1
         /\ wait_s' = w
         /\ UNCHANGED <<base, pc, outcome>>
    ELSE IF base < Len(OVERPASS_URLS)
    THEN /\ base' = base + 1
         /\ attempt' = 0
         /\ wait_s' = WAIT_START
         /\ UNCHANGED <<pc, outcome>>
    ELSE /\ pc' = "raised"
         /\ outcome' = CallerOutcome(Exhausted(err))
         /\ wait_s' = w
         /\ UNCHANGED <<base, attempt>>

\* The response is a 429
Respond429 ==
    /\ pc = "request"
    /\ \E ra \in RetryAfterPool :
          IF ra.kind = "inf"
          THEN \* time.sleep(inf) raises OverflowError into the except branch
               /\ ev' = Event("429-overflow", ERR_SLEEP_CAP, ra)
               /\ last_err' = "OverflowError"
               /\ Advance(ERR_WAIT_CAP, "OverflowError")
          ELSE LET slept == WaitWithRetryAfter(wait_s, ra)
               IN  /\ ev' = Event("429", slept, ra)
                   /\ last_err' = last_err
                   /\ Advance(Next429Wait(slept), last_err)
    /\ requests' = requests + 1
    /\ UNCHANGED <<call, ret, OFFICIAL_MATCH_THRESHOLD_M, err_sleep_first,
                   max_retries, caller, max_relations>>

\* The request raises, or the response fails the status check or does not parse
RespondError ==
    /\ pc = "request"
    /\ \E err \in FailurePool :
          /\ ev' = Event("error", ErrSleep(wait_s), [kind |-> "absent", v |-> 0])
          /\ last_err' = err
          /\ Advance(NextErrWait(wait_s), err)
    /\ err_sleep_first' = IF err_sleep_first = 0 THEN ErrSleep(wait_s) ELSE err_sleep_first
    /\ requests' = requests + 1
    /\ UNCHANGED <<call, ret, OFFICIAL_MATCH_THRESHOLD_M, max_retries, caller,
                   max_relations>>

\* The response passes the status check and parses
RespondOK ==
    /\ pc = "request"
    /\ \E data \in DataPool :
          outcome' = CallerOutcome(Return(data))
    /\ ev' = Event("ok", 0, [kind |-> "absent", v |-> 0])
    /\ pc' = "returned"
    /\ requests' = requests + 1
    /\ UNCHANGED <<call, ret, OFFICIAL_MATCH_THRESHOLD_M, base, attempt, wait_s,
                   last_err, err_sleep_first, max_retries, caller, max_relations>>

NextOverpass == OverpassCall \/ Respond429 \/ RespondError \/ RespondOK

SpecOverpass == InitOverpass /\ [][NextOverpass]_vars

\* wait_s * 1.6 is exact in the model's unit whenever the cap does not apply
WaitExact == pc = "request" => (wait_s * 16) % 10 = 0 \/ wait_s * 16 >= 10 * ERR_WAIT_CAP

-----------------------------------------------------------------------------
(* ors_elevation_line: the polyline is sampled, sent to the elevation *)
(* service, and the service's answer is converted                     *)

ORS_MAX_VERTICES == 2000

\* max_points = min(ORS_MAX_VERTICES - 50, 1800)
ElevationMaxPoints == Min(ORS_MAX_VERTICES - 50, 1800)

\* latlon[::step]: the elements at the 0-based indices 0, step, 2 step, ...
SliceStep(latlon, step) ==
    [k \in 1 .. ((Len(latlon) + step - 1) \div step) |-> latlon[(k - 1) * step + 1]]

\* _sample_latlon
_sample_latlon(latlon, max_points) ==
    LET n == Len(latlon)
        step == Max(1, n \div max_points)
        sampled == SliceStep(latlon, step)
    IN  IF n <= max_points THEN latlon
        ELSE IF Len(sampled) > 0 /\ sampled[Len(sampled)] # latlon[n]
             THEN Append(sampled, latlon[n])
             ELSE sampled

\* coords_lonlat: [lon, lat] for every (lat, lon)
LonLat(latlon) == [k \in 1 .. Len(latlon) |-> <<latlon[k][2], latlon[k][1]>>]

\* What the elevation service may answer to a request with these coordinates
ElevationResponses(coords_lonlat) ==
    { [kind |-> "http_error"],
      [kind |-> "json", geometry |-> None],
      [kind |-> "json",
       geometry |-> Some([k \in 1 .. Len(coords_lonlat) |->
                             <<coords_lonlat[k][1], coords_lonlat[k][2], 100>>])],
      [kind |-> "json", geometry |-> Some(coords_lonlat)] }

\* isinstance(c, list) and len(c) >= 3
HasElevation(c) == Len(c) >= 3

\* out: (lat, lon, ele) for every coordinate with at least 3 components
ElevationOut(coords) ==
    LET kept == SelectSeq(coords, HasElevation)
    IN  [k \in 1 .. Len(kept) |-> <<kept[k][2], kept[k][1], kept[k][3]>>]

\* The result of ors_elevation_line for one answer of the service
ElevationResult(response) ==
    IF response.kind = "http_error" THEN Raise("HTTPError")
    ELSE IF response.geometry = None THEN Return(<< >>)
    ELSE Return(ElevationOut(response.geometry[1]))

\* Largest polyline of the harness
MaxPoints == 5400

\* Polyline lengths around the multiples of 200
LengthPool == { n \in 0 .. MaxPoints : n % 200 \in {0, 1, 199} }

\* A polyline of n points: point i lies at latitude i; in the shape "dup_tail"
\* the last point repeats the one before it.
Polyline(n, shape) ==
    [i \in 1 .. n |-> IF shape = "dup_tail" /\ i = n /\ n >= 2
                      THEN <<n - 1, 7>> ELSE <<i, 7>>]

InitElevation ==
    /\ call \in { [fn |-> "ors_elevation_line", n |-> n, shape |-> sh, api_key |-> k] :
                      n \in LengthPool, sh \in {"distinct", "dup_tail"},
                      k \in {"", "key"} }
    /\ ret = NoRet
    /\ OFFICIAL_MATCH_THRESHOLD_M = DEFAULT_THRESHOLD_M
    /\ OverpassIdle

\* ret.sent is the coordinate list of the request: None when none was sent
CallOrsElevationLine ==
    /\ call.fn = "ors_elevation_line"
    /\ ~ret.done
    /\ IF call.api_key = ""
       THEN ret' = [done |-> TRUE, value |-> Raise("ValueError"), sent |-> None]
       ELSE LET latlon == _sample_latlon(Polyline(call.n, call.shape),
                                         ElevationMaxPoints)
                coords_lonlat == LonLat(latlon)
            IN  \E response \in ElevationResponses(coords_lonlat) :
                    ret' = [done |-> TRUE, value |-> ElevationResult(response),
                            sent |-> Some(coords_lonlat)]
    /\ UNCHANGED <<call, OFFICIAL_MATCH_THRESHOLD_M, overpass_vars>>

NextElevation == CallOrsElevationLine

SpecElevation == InitElevation /\ [][NextElevation]_vars

-----------------------------------------------------------------------------
(* Authoritative index loader *)
(*                                                                         *)
(* A GPX file is a record: parses (ET.parse succeeds), metadata (None or   *)
(* Some of a record with the field bounds, itself None or Some of the      *)
(* attribute dict), trk (None or Some of a record with the field trkseg,   *)
(* None or Some of the sequence of trkpt attribute dicts), wpts (the       *)
(* sequence of waypoints, each with name None or Some(text)), stem and     *)
(* path.  An attribute dict maps a key to Some(v) when its text is the     *)
(* number v and to None when float() rejects the text.                     *)

\* float(attrib.get(k)) and float(attrib[k]): None stands for the exception
\* (TypeError or KeyError for an absent key, ValueError for other text)
ParseFloat(attrib, k) == IF k \in DOMAIN attrib THEN attrib[k] ELSE None

\* The bounding box taken from the metadata, else from the track's points.
BoundsOrExtremes(f) ==
    LET meta == f.metadata
        b == IF meta # None THEN meta[1].bounds ELSE None
        pts == IF f.trk # None /\ f.trk[1].trkseg # None
               THEN f.trk[1].trkseg[1] ELSE << >>
        lats == { ParseFloat(pts[i], "lat")[1] : i \in 1 .. Len(pts) }
        lons == { ParseFloat(pts[i], "lon")[1] : i \in 1 .. Len(pts) }
    IN  IF b = None \/ DOMAIN b[1] = {}
        THEN IF Len(pts) < 2 THEN None
             ELSE Some(<<CHOOSE x \in lats : \A y \in lats : x <= y,
                         CHOOSE x \in lons : \A y \in lons : x <= y,
                         CHOOSE x \in lats : \A y \in lats : x >= y,
                         CHOOSE x \in lons : \A y \in lons : x >= y>>)
        ELSE LET minlat == ParseFloat(b[1], "minlat")
                 minlon == ParseFloat(b[1], "minlon")
                 maxlat == ParseFloat(b[1], "maxlat")
                 maxlon == ParseFloat(b[1], "maxlon")
             IN  IF None \in {minlat, minlon, maxlat, maxlon} THEN None
                 ELSE Some(<<minlat[1], minlon[1], maxlat[1], maxlon[1]>>)

\* (minlat, minlon, maxlat, maxlon) of metadata/bounds; None where the code
\* returns None for want of them
DeclaredBounds(f) ==
    LET meta == f.metadata
        b == IF meta # None THEN meta[1].bounds ELSE None
    IN  IF b = None \/ DOMAIN b[1] = {} THEN None
        ELSE LET minlat == ParseFloat(b[1], "minlat")
                 minlon == ParseFloat(b[1], "minlon")
                 maxlat == ParseFloat(b[1], "maxlat")
                 maxlon == ParseFloat(b[1], "maxlon")
             IN  IF None \in {minlat, minlon, maxlat, maxlon} THEN None
                 ELSE Some(<<minlat[1], minlon[1], maxlat[1], maxlon[1]>>)

\* the character U+2192 of the name format
ARROW == "->"

\* str.strip(chars) on a sequence of tokens
RECURSIVE lstripChars(_, _)
lstripChars(s, chars) ==
    IF Len(s) > 0 /\ s[1] \in chars THEN lstripChars(Tail(s), chars) ELSE s

RECURSIVE rstripChars(_, _)
rstripChars(s, chars) ==
    IF Len(s) > 0 /\ s[Len(s)] \in chars
    THEN rstripChars(SubSeq(s, 1, Len(s) - 1), chars) ELSE s

stripChars(s, chars) == rstripChars(lstripChars(s, chars), chars)

\* (w.findtext("g:name", default="") or "").strip()
WptName(w) == strip(IF w.name = None THEN << >> ELSE w.name[1])

\* The record's name: "first → last" of the waypoint names, else the stem
GpxName(f) ==
    IF Len(f.wpts) > 0
    THEN stripChars(WptName(f.wpts[1]) \o <<BLANK, ARROW, BLANK>>
                        \o WptName(f.wpts[Len(f.wpts)]),
                    {BLANK, ARROW})
    ELSE f.stem

\* None, or Some(record)
_parse_gpx_bounds_and_endpoints(f) ==
    IF ~f.parses THEN None
    ELSE LET bounds == DeclaredBounds(f)
         IN  IF bounds = None THEN None
             ELSE IF f.trk = None THEN None
             ELSE IF f.trk[1].trkseg = None THEN None
             ELSE LET pts == f.trk[1].trkseg[1]
                  IN  IF Len(pts) < 2 THEN None
                      ELSE LET s_lat == ParseFloat(pts[1], "lat")
                               s_lon == ParseFloat(pts[1], "lon")
                               e_lat == ParseFloat(pts[Len(pts)], "lat")
                               e_lon == ParseFloat(pts[Len(pts)], "lon")
                           IN  IF None \in {s_lat, s_lon, e_lat, e_lon} THEN None
                               ELSE Some([name |-> GpxName(f),
                                          start_lat |-> s_lat[1],
                                          start_lon |-> s_lon[1],
                                          end_lat |-> e_lat[1],
                                          end_lon |-> e_lon[1],
                                          bbox |-> bounds[1],
                                          path |-> f.path])

\* Boxes are (south, west, north, east)
_bbox_intersects(b1, b2) ==
    ~(b1[4] < b2[2] \/ b2[4] < b1[2] \/ b1[3] < b2[1] \/ b2[3] < b1[1])

\* The cap test made one record too late.
CapReachedLate(picked, max_files) == picked > max_files

\* if picked >= max_files: break
CapReached(picked, max_files) == picked >= max_files

\* The loop over gpx_files from file i on; picked is Len(out)
RECURSIVE LoadLoop(_, _, _, _, _)
LoadLoop(gpx_files, i, bbox, max_files, out) ==
    IF i > Len(gpx_files) THEN out
    ELSE IF CapReached(Len(out), max_files) THEN out
    ELSE LET info == _parse_gpx_bounds_and_endpoints(gpx_files[i])
         IN  IF info = None
             THEN LoadLoop(gpx_files, i + 1, bbox, max_files, out)
             ELSE IF bbox # None /\ ~_bbox_intersects(bbox[1], info[1].bbox)
             THEN LoadLoop(gpx_files, i + 1, bbox, max_files, out)
             ELSE LoadLoop(gpx_files, i + 1, bbox, max_files, Append(out, info[1]))

\* A missing directory reported as an error.
NoDirectoryRaises == Raise("FileNotFoundError")

\* if not base.exists(): return []
NoDirectory == Return(<< >>)

\* data_dir is [exists, gpx_files]: gpx_files is what base.rglob("*.gpx")
\* lists, in its order; bbox is None or Some(box)
load_official_gpx_index(data_dir, bbox, max_files) ==
    IF ~data_dir.exists THEN NoDirectory
    ELSE Return(LoadLoop(data_dir.gpx_files, 1, bbox, max_files, << >>))

-----------------------------------------------------------------------------
(* The index is loaded from a directory and handed to build_courses, or    *)
(* build_courses runs without an index as in main.py's cached_courses      *)

\* Largest number of .gpx files in the directory
MaxDirFiles == 3

NumAttr(v) == Some(v)

\* attribute text that float() rejects
BadAttr == None

BoundsAttr(s, w, n, e) ==
    [minlat |-> NumAttr(s), minlon |-> NumAttr(w),
     maxlat |-> NumAttr(n), maxlon |-> NumAttr(e)]

TrkPt(lat) == [lat |-> NumAttr(lat), lon |-> NumAttr(0)]

Metadata(attrib) == Some([bounds |-> Some(attrib)])

Trk(pts) == Some([trkseg |-> Some(pts)])

GpxFile(stem, parses, metadata, trk, wpts) ==
    [path |-> stem, stem |-> <<stem>>, parses |-> parses, metadata |-> metadata,
     trk |-> trk, wpts |-> wpts]

\* A track from 80 m to 1080 m whose declared bounds are its extremes
GpxNear ==
    GpxFile("near", TRUE, Metadata(BoundsAttr(800, -5, 10800, 5)),
            Trk(<<TrkPt(800), TrkPt(10800)>>), << >>)

\* A track far north with two named waypoints, the second without a name
GpxFar ==
    GpxFile("far", TRUE, Metadata(BoundsAttr(50000, -5, 60000, 5)),
            Trk(<<TrkPt(50000), TrkPt(55000), TrkPt(60000)>>),
            << [name |-> Some(<<BLANK, "S">>)], [name |-> None] >>)

\* The track of GpxNear in a file without metadata
GpxNoMetadata ==
    GpxFile("nometa", TRUE, None, Trk(<<TrkPt(800), TrkPt(10800)>>),
            << [name |-> Some(<<"S">>)], [name |-> Some(<<"E", BLANK>>)] >>)

\* <bounds/> without attributes
GpxEmptyBounds ==
    GpxFile("emptybounds", TRUE, Metadata(<< >>),
            Trk(<<TrkPt(800), TrkPt(10800)>>), << >>)

\* minlat is no number and maxlon is missing
GpxBadBounds ==
    GpxFile("badbounds", TRUE,
            Metadata([minlat |-> BadAttr, minlon |-> NumAttr(-5),
                      maxlat |-> NumAttr(10800)]),
            Trk(<<TrkPt(800), TrkPt(10800)>>), << >>)

\* Not well-formed XML
GpxBroken == GpxFile("broken", FALSE, None, None, << >>)

\* <trk> without <trkseg>
GpxNoSeg ==
    GpxFile("noseg", TRUE, Metadata(BoundsAttr(800, -5, 10800, 5)),
            Some([trkseg |-> None]), << >>)

GpxOnePoint ==
    GpxFile("onepoint", TRUE, Metadata(BoundsAttr(800, -5, 10800, 5)),
            Trk(<<TrkPt(800)>>), << >>)

\* The first track point has no lat attribute
GpxBadPoint ==
    GpxFile("badpoint", TRUE, Metadata(BoundsAttr(800, -5, 10800, 5)),
            Trk(<<[lon |-> NumAttr(0)], TrkPt(10800)>>), << >>)

\* A second usable track, next to GpxNear
GpxNear2 ==
    GpxFile("near2", TRUE, Metadata(BoundsAttr(10800, -5, 20000, 5)),
            Trk(<<TrkPt(11500), TrkPt(20000), TrkPt(21500)>>), << >>)

GpxPool == { GpxNear, GpxNear2, GpxFar, GpxNoMetadata, GpxEmptyBounds, GpxBadBounds,
             GpxBroken, GpxNoSeg, GpxOnePoint, GpxBadPoint }

\* The directories: missing, or holding up to MaxDirFiles different files in
\* any order
DirPool ==
    { [exists |-> FALSE, gpx_files |-> << >>] }
    \cup { [exists |-> TRUE, gpx_files |-> fs] :
               fs \in { q \in SeqsUpTo(GpxPool, MaxDirFiles) :
                            \A i, j \in 1 .. Len(q) : i # j => q[i] # q[j] } }

\* Filters (south, west, north, east): one that touches GpxNear's box along
\* its western edge and GpxNear2's at a corner and lies south of GpxFar's, one
\* east of every box, or none
BboxFilterPool == { None, Some(<<0, -20, 10800, -5>>), Some(<<0, 6, 60000, 9>>) }

\* The relations of the run: A from 0 m to 1000 m, B from 1000 m to 2000 m
PipelineRels == <<BuildRel(NameA, <<W1000>>), BuildRel(NameB, <<Cont0>>)>>

InitPipeline ==
    /\ call \in { [fn |-> "load_official_gpx_index", data_dir |-> d, bbox |-> b,
                   max_files |-> m, rels |-> PipelineRels] :
                      d \in DirPool, b \in BboxFilterPool, m \in 0 .. MaxDirFiles }
    /\ ret = NoRet
    /\ OFFICIAL_MATCH_THRESHOLD_M = DEFAULT_THRESHOLD_M
    /\ OverpassIdle

\* load_official_gpx_index(data_dir, bbox, max_files)
CallLoadOfficialGpxIndex ==
    /\ call.fn = "load_official_gpx_index"
    /\ ~ret.done
    /\ "loaded" \notin DOMAIN ret
    /\ ret' = [done |-> FALSE,
               loaded |-> load_official_gpx_index(call.data_dir, call.bbox,
                                                  call.max_files)]
    /\ UNCHANGED <<call, OFFICIAL_MATCH_THRESHOLD_M, overpass_vars>>

\* build_courses(bbox, official_index = the loaded index)
CallBuildCoursesWithIndex ==
    /\ call.fn = "load_official_gpx_index"
    /\ ~ret.done
    /\ "loaded" \in DOMAIN ret
    /\ ret.loaded.kind = "return"
    /\ ret' = [done |-> TRUE, loaded |-> ret.loaded,
               value |-> build_courses(call.rels, ret.loaded.value,
                                       OFFICIAL_MATCH_THRESHOLD_M)]
    /\ UNCHANGED <<call, OFFICIAL_MATCH_THRESHOLD_M, overpass_vars>>

\* cached_courses: build_courses without an index (official_index or [] is
\* the empty list), the courses then sorted again in a data frame
CallCachedCourses ==
    /\ call.fn = "load_official_gpx_index"
    /\ ~ret.done
    /\ "loaded" \notin DOMAIN ret
    /\ ret' = [done |-> TRUE,
               value |-> SortCourses(build_courses(call.rels, << >>,
                                                   OFFICIAL_MATCH_THRESHOLD_M))]
    /\ UNCHANGED <<call, OFFICIAL_MATCH_THRESHOLD_M, overpass_vars>>

NextPipeline ==
    CallLoadOfficialGpxIndex \/ CallBuildCoursesWithIndex \/ CallCachedCourses

SpecPipeline == InitPipeline /\ [][NextPipeline]_vars

-----------------------------------------------------------------------------
(* One build_courses run, relation by relation, while another caller may *)
(* call set_official_match_threshold between any two of its steps        *)

\* Largest number of relations the fetch of the run returns
MaxRunRels == 3

\* A (0 m to 1000 m), B (1000 m to 2000 m), and a relation rejected for its
\* length
RunRelPool == { BuildRel(NameA, <<W1000>>), BuildRel(NameB, <<Cont0>>),
                BuildRel(NameA, <<W990>>) }

\* Tracks 80 m from A's endpoints and 150 m from B's
RunIndex == <<Rec(<<"T1">>, 800, 10800), Rec(<<"T2">>, 11500, 21500)>>

RunIndexPool == { << >>, RunIndex }

RunThresholdArgs == { 0, 100, 250 }

\* ret.i is the position of the run: 0 before fetch_trails_relations has
\* returned, then the index of the next relation; ret.courses is the local
\* list courses; ret.reads lists the values of the global that the calls of
\* match_official_by_endpoints read (history)
InitRun ==
    /\ call \in { [fn |-> "build_courses_run", rels |-> rs, official_index |-> ix] :
                      rs \in SeqsUpTo(RunRelPool, MaxRunRels), ix \in RunIndexPool }
    /\ ret = [done |-> FALSE, i |-> 0, courses |-> << >>, reads |-> << >>]
    /\ OFFICIAL_MATCH_THRESHOLD_M = DEFAULT_THRESHOLD_M
    /\ OverpassIdle

\* The end of the run: sort, keep the first course of each name, return
RunReturn(courses, reads) ==
    [done |-> TRUE, i |-> Len(call.rels) + 1, courses |-> courses, reads |-> reads,
     value |-> Dedup(SortCourses(courses), 1, << >>)]

\* fetch_trails_relations returns call.rels; with no relation the loop is
\* skipped and the run returns
RunFetch ==
    /\ call.fn = "build_courses_run"
    /\ ~ret.done
    /\ ret.i = 0
    /\ ret' = IF Len(call.rels) = 0 THEN RunReturn(<< >>, << >>)
              ELSE [ret EXCEPT !.i = 1]
    /\ UNCHANGED <<call, OFFICIAL_MATCH_THRESHOLD_M, overpass_vars>>

\* One iteration of the loop: relation_to_course on the next relation, which
\* reads the global when it gets as far as a match against a non-empty index;
\* the last iteration goes on to the return
RunRelation ==
    /\ call.fn = "build_courses_run"
    /\ ~ret.done
    /\ ret.i \in 1 .. Len(call.rels)
    /\ LET c == relation_to_course(call.rels[ret.i], call.official_index,
                                   OFFICIAL_MATCH_THRESHOLD_M)
           courses == ret.courses \o c
           reads == IF c # None /\ Len(call.official_index) > 0
                    THEN Append(ret.reads, OFFICIAL_MATCH_THRESHOLD_M)
                    ELSE ret.reads
       IN  ret' = IF ret.i = Len(call.rels) THEN RunReturn(courses, reads)
                  ELSE [ret EXCEPT !.i = ret.i + 1, !.courses = courses,
                                   !.reads = reads]
    /\ UNCHANGED <<call, OFFICIAL_MATCH_THRESHOLD_M, overpass_vars>>

\* Another caller sets the threshold
RunSetThreshold ==
    /\ call.fn = "build_courses_run"
    /\ \E threshold_m \in RunThresholdArgs :
           OFFICIAL_MATCH_THRESHOLD_M' = set_official_match_threshold(threshold_m)
    /\ UNCHANGED <<call, ret, overpass_vars>>

NextRun == RunFetch \/ RunRelation \/ RunSetThreshold

SpecRun == InitRun /\ [][NextRun]_vars

-----------------------------------------------------------------------------
(* Claims about relation_to_course (checked under SpecRoute) *)

RelTags == GetDict(call.rel, "tags")

RelMembers == IF "members" \in DOMAIN call.rel THEN call.rel.members ELSE << >>

\* The relation carries no usable name: no name tag, or one blank once stripped
RelUnnamed == "name" \notin DOMAIN RelTags \/ strip(RelTags.name) = << >>

\* The members that contribute points: those with at least 2 points
UsedMembers == SelectSeq([i \in 1 .. Len(RelMembers) |-> MemberPts(RelMembers[i])],
                         LAMBDA pts : Len(pts) >= 2)

\* All points of the used members, one member after the other
RECURSIVE Flatten(_)
Flatten(ptsSeq) == IF ptsSeq = << >> THEN << >> ELSE Head(ptsSeq) \o Flatten(Tail(ptsSeq))

\* The same with the first point of every member but the first left out
RECURSIVE FlattenTails(_)
FlattenTails(ptsSeq) ==
    IF ptsSeq = << >> THEN << >> ELSE Tail(Head(ptsSeq)) \o FlattenTails(Tail(ptsSeq))

MergedChain == IF UsedMembers = << >> THEN << >>
               ELSE Head(UsedMembers) \o FlattenTails(Tail(UsedMembers))

\* Gap, in decimetres, between used member i-1's last and member i's first point
JointGap(i) ==
    LET prev == UsedMembers[i - 1]
    IN  Abs(UsedMembers[i][1][1] - prev[Len(prev)][1])

\* The polyline the assembler accumulates, and its unrounded length
RelPolyline == Stitch(RelMembers, 1, << >>)

RelLength == polyline_length_km(RelPolyline)

RouteReturned == call.fn = "relation_to_course" /\ ret.done

\* C6 as stated: no route exactly when the relation is unnamed, has fewer than
\* 2 vertices, or its computed length before rounding is below 1.0 km or above
\* 35.0 km.
C6_AsStated ==
    RouteReturned =>
        (ret.value = None <=>
            \/ RelUnnamed
            \/ Len(RelPolyline) < 2
            \/ RelLength < 10000
            \/ RelLength > 350000)

\* C6, amended: no route exactly when the relation is unnamed (no name tag or
\* a blank one), has fewer than 2 vertices, or its length rounded to 2 decimals
\* is below 1.00 km or above 35.00 km, that is, when the computed length is
\* below 0.995 km or above 35.005 km; 1.0 km and 35.0 km are accepted and
\* 0.99 km is rejected.
C6_RejectionRules ==
    RouteReturned =>
        /\ ret.value = None <=>
              \/ RelUnnamed
              \/ Len(RelPolyline) < 2
              \/ RelLength < 9950
              \/ RelLength > 350050
        /\ (~RelUnnamed /\ RelLength \in {10000, 350000}) => ret.value # None
        /\ RelLength = 9900 => ret.value = None
        /\ ret.value # None =>
              ret.value[1].distance_km \in MIN_ROUTE_KM .. MAX_ROUTE_KM

\* A relation whose computed length is below 1.0 km is accepted.
C6_Witness ==
    /\ RouteReturned
    /\ ret.value # None
    /\ RelLength < 10000

\* The relation's used members form one chain: at least two of them, each
\* starting less than 5 m from the end of the one before.
IsChain ==
    /\ Len(UsedMembers) >= 2
    /\ Len(UsedMembers) = Len(RelMembers)
    /\ \A i \in 2 .. Len(UsedMembers) : JointGap(i) < STITCH_THRESHOLD

\* C7 as stated: for a chain the route is the members' points with each later
\* member's first point dropped and its length is the length of the polyline
\* through all the members' points (to the 2 decimals a route length has).
C7_AsStated ==
    (RouteReturned /\ IsChain /\ ret.value # None) =>
        /\ ret.value[1].coords = MergedChain
        /\ ret.value[1].distance_km =
               RoundDiv(polyline_length_km(Flatten(UsedMembers)), 100)

\* C7, amended: for a chain the route is the members' points with each later
\* member's first point dropped, and its length is the length, rounded to 2
\* decimals, of that merged polyline; this is never more than the length of
\* the polyline through all the members' points, and equals it (rounded) when
\* every joint is an exact duplicate.
C7_ChainStitching ==
    (RouteReturned /\ IsChain /\ ret.value # None) =>
        /\ ret.value[1].coords = MergedChain
        /\ ret.value[1].distance_km = RoundDiv(polyline_length_km(MergedChain), 100)
        /\ polyline_length_km(MergedChain) <= polyline_length_km(Flatten(UsedMembers))
        /\ (\A i \in 2 .. Len(UsedMembers) : JointGap(i) = 0) =>
               ret.value[1].distance_km =
                   RoundDiv(polyline_length_km(Flatten(UsedMembers)), 100)

\* A chain with a joint that is not an exact duplicate yields a route.
C7_Witness ==
    /\ RouteReturned
    /\ IsChain
    /\ ret.value # None
    /\ \E i \in 2 .. Len(UsedMembers) : JointGap(i) > 0

-----------------------------------------------------------------------------
(* Claims about difficulty_label (checked under SpecDifficulty) *)

DifficultyReturned == call.fn = "difficulty_label" /\ ret.done

RecognizedGrades == { <<"hiking">>, <<"mountain_hiking">> } \cup HardGrades

\* The tier a recognized grade maps to
TierOfGrade(g) ==
    IF g = <<"hiking">> THEN EASY
    ELSE IF g = <<"mountain_hiking">> THEN MODERATE
    ELSE HARD

\* C8: a recognized hint decides the tier (hiking -> easy, mountain_hiking ->
\* moderate, the four demanding/alpine grades -> hard) whatever the length;
\* the tier depends on the length only when the hint is not a recognized one.
C8_HintPrecedence ==
    DifficultyReturned =>
        /\ call.sac_hint \in RecognizedGrades => ret.value = TierOfGrade(call.sac_hint)
        /\ (\E d \in DistancePool : difficulty_label(call.sac_hint, d) # ret.value)
               => strip(call.sac_hint) \notin RecognizedGrades

\* The hint demanding_mountain_hiking with a length of 2 km classifies as hard.
C8_Witness ==
    /\ DifficultyReturned
    /\ call.sac_hint = <<"demanding_mountain_hiking">>
    /\ call.distance_km = 200
    /\ ret.value = HARD

Unrecognized == strip(call.sac_hint) \notin RecognizedGrades

\* C9 as stated: without a recognized hint a length below 5 km is easy, from
\* 5 km to 10 km inclusive moderate, above 10 km hard.
C9_AsStated ==
    (DifficultyReturned /\ Unrecognized) =>
        ret.value = IF call.distance_km < 500 THEN EASY
                    ELSE IF call.distance_km <= 1000 THEN MODERATE
                    ELSE HARD

\* C9, amended: without a recognized hint a length below 5 km is easy, from
\* 5 km up to but not including 10 km moderate, 10 km and above hard; exactly
\* 5 km is moderate and exactly 10 km is hard.
C9_LengthTiers ==
    (DifficultyReturned /\ Unrecognized) =>
        /\ call.distance_km <= 499 => ret.value = EASY
        /\ call.distance_km \in 500 .. 999 => ret.value = MODERATE
        /\ call.distance_km >= 1000 => ret.value = HARD

\* A route of exactly 10 km without a hint has been classified.
C9_Witness ==
    /\ DifficultyReturned
    /\ call.sac_hint = << >>
    /\ call.distance_km = 1000
    /\ ret.value = HARD

-----------------------------------------------------------------------------
(* Claims about fetch_trails_relations (checked under SpecFetch) *)

FetchReturned == call.fn = "fetch_trails_relations" /\ ret.done

FetchElements == IF "elements" \in DOMAIN call.data THEN call.data.elements ELSE << >>

\* The element is a relation / a relation with a non-empty name tag
ElementIsRelation(el) == "type" \in DOMAIN el /\ el.type = "relation"

ElementNamed(el) ==
    /\ ElementIsRelation(el)
    /\ "tags" \in DOMAIN el
    /\ "name" \in DOMAIN el.tags
    /\ el.tags.name # << >>

\* Positions in the response of the elements the claim says are returned
PreferredPositions ==
    LET named == { i \in 1 .. Len(FetchElements) : ElementNamed(FetchElements[i]) }
        all == { i \in 1 .. Len(FetchElements) : ElementIsRelation(FetchElements[i]) }
    IN  IF named # {} THEN named ELSE all

\* The k-th smallest member of a set of positions
KthPosition(P, k) == CHOOSE i \in P : Cardinality({ j \in P : j <= i }) = k

\* C5: the result is, in response order, the first max_relations of the named
\* relations if there is one, otherwise of all relations; it holds relations
\* only and never both a named and an unnamed one.
C5_FetchFilter ==
    (FetchReturned /\ call.max_relations >= 0) =>
        /\ Len(ret.value) = Min(call.max_relations, Cardinality(PreferredPositions))
        /\ \A k \in 1 .. Len(ret.value) :
               ret.value[k] = FetchElements[KthPosition(PreferredPositions, k)]
        /\ \A k \in 1 .. Len(ret.value) : ElementIsRelation(ret.value[k])
        /\ \/ \A k \in 1 .. Len(ret.value) : ElementNamed(ret.value[k])
           \/ \A k \in 1 .. Len(ret.value) : ~ElementNamed(ret.value[k])

\* A response with named relations after an unnamed one, cut by the cap.
C5_Witness ==
    /\ FetchReturned
    /\ \E i, j \in 1 .. Len(FetchElements) :
           /\ i < j
           /\ ElementIsRelation(FetchElements[i]) /\ ~ElementNamed(FetchElements[i])
           /\ ElementNamed(FetchElements[j])
    /\ call.max_relations >= 1
    /\ call.max_relations < Cardinality(PreferredPositions)
    /\ Len(ret.value) = call.max_relations

-----------------------------------------------------------------------------
(* Claims about build_courses (checked under SpecBuild) *)

BuildReturned == call.fn = "build_courses" /\ ret.done

\* The course of raw relation i, as an option
Candidate(i) ==
    relation_to_course(call.rels[i], call.official_index, OFFICIAL_MATCH_THRESHOLD_M)

CandidatePositions == { i \in 1 .. Len(call.rels) : Candidate(i) # None }

\* (score, distance_km) of a is at least that of b
RankGE(a, b) ==
    a.score > b.score \/ (a.score = b.score /\ a.distance_km >= b.distance_km)

\* C1: the result holds exactly one course per distinct name among the courses
\* the relations yield, each a course of maximal (score, distance_km) among
\* those of its name, whatever the raw order.
C1_DedupKeepsBest ==
    BuildReturned =>
        /\ \A i, j \in 1 .. Len(ret.value) :
               ret.value[i].name = ret.value[j].name => i = j
        /\ { ret.value[i].name : i \in 1 .. Len(ret.value) }
               = { Candidate(i)[1].name : i \in CandidatePositions }
        /\ \A i \in 1 .. Len(ret.value) :
               /\ \E k \in CandidatePositions : Candidate(k)[1] = ret.value[i]
               /\ \A k \in CandidatePositions :
                      Candidate(k)[1].name = ret.value[i].name
                          => RankGE(ret.value[i], Candidate(k)[1])

\* Two relations of one name, the later one in raw order ranking strictly
\* higher and only by its length, and the result keeps the later one.
C1_Witness ==
    /\ BuildReturned
    /\ \E i, j \in CandidatePositions :
           /\ i < j
           /\ Candidate(i)[1].name = Candidate(j)[1].name
           /\ Candidate(i)[1].score = Candidate(j)[1].score
           /\ Candidate(i)[1].distance_km < Candidate(j)[1].distance_km
           /\ \E k \in 1 .. Len(ret.value) : ret.value[k] = Candidate(j)[1]

-----------------------------------------------------------------------------
(* Claims about match_official_by_endpoints (checked under SpecMatch) *)

MatchReturned == call.fn = "match_official_by_endpoints" /\ ret.done

\* C10: the candidate with start and end exchanged gets the same matched flag,
\* trust score, nearest distance and record name.
C10_ReversalSymmetry ==
    MatchReturned =>
        LET rev == match_official_by_endpoints(call.course_end, call.course_start,
                                               call.official_index, ret.th)
        IN  /\ rev.matched = ret.value.matched
            /\ rev.trust_score = ret.value.trust_score
            /\ rev.nearest_m = ret.value.nearest_m
            /\ rev.official_name = ret.value.official_name

\* A candidate matched to a record it runs against: the record's reversed
\* orientation is strictly the nearer one.
C10_Witness ==
    /\ MatchReturned
    /\ ret.value.matched
    /\ call.course_start # call.course_end
    /\ \E i \in 1 .. Len(call.official_index) :
           /\ ret.value.official_name = Some(call.official_index[i].name)
           /\ ReversedSum(call.course_start, call.course_end, call.official_index[i])
                  < ForwardSum(call.course_start, call.course_end, call.official_index[i])
           /\ ret.value.nearest_m =
                  Some(NearestM(ReversedSum(call.course_start, call.course_end,
                                            call.official_index[i])))

\* The distance of record r from the candidate (s, e), in half decimetres:
\* the smaller of the forward and the reversed endpoint sums.
RecordDistance(s, e, r) ==
    LET fwd == Abs(s[1] - r.start_lat) + Abs(e[1] - r.end_lat)
        rev == Abs(s[1] - r.end_lat) + Abs(e[1] - r.start_lat)
    IN  IF fwd <= rev THEN fwd ELSE rev

\* The smallest distance of a record of a non-empty index from (s, e).
IndexNearest(s, e, index) ==
    CHOOSE d \in { RecordDistance(s, e, index[i]) : i \in 1 .. Len(index) } :
        \A i \in 1 .. Len(index) : d <= RecordDistance(s, e, index[i])

\* The nearest distance of the returned call (its index is not empty).
CallNearest == IndexNearest(call.course_start, call.course_end, call.official_index)

MatchedNonEmpty == MatchReturned /\ Len(call.official_index) > 0

\* The threshold the returned call read, in half decimetres.
CallThreshold2 == 20 * ret.th

\* The formula's bounds, in hundredths: 5.0 at the threshold, 30.0 at distance 0.
TRUST_MIN == 500

TRUST_MAX == 3000

\* C11: with a non-empty index, a nearest distance equal to the threshold is a
\* match with the formula's minimum trust score (5.0), and a nearest distance
\* beyond the threshold, by 1 m or by any amount, is no match with trust 0.
C11_ThresholdBoundary ==
    MatchedNonEmpty =>
        /\ CallNearest = CallThreshold2 =>
               ret.value.matched /\ ret.value.trust_score = TRUST_MIN
        /\ CallNearest > CallThreshold2 =>
               ~ret.value.matched /\ ret.value.trust_score = 0

\* A candidate exactly at the threshold, matched with trust 5.0, that is no
\* match with trust 0 once the threshold is 1 m lower.
C11_Witness ==
    /\ MatchedNonEmpty
    /\ CallNearest = CallThreshold2
    /\ ret.value.matched
    /\ ret.value.trust_score = TRUST_MIN
    /\ LET beyond == match_official_by_endpoints(call.course_start, call.course_end,
                                                 call.official_index, ret.th - 1)
       IN  ~beyond.matched /\ beyond.trust_score = 0

\* The result for another candidate against the same index and threshold.
OtherMatch(s, e) ==
    match_official_by_endpoints(<<s, 0>>, <<e, 0>>, call.official_index, ret.th)

OtherNearest(s, e) == IndexNearest(<<s, 0>>, <<e, 0>>, call.official_index)

\* The trust score does not increase with the nearest distance, and is 0 beyond
\* the threshold.
TrustMonotone ==
    /\ CallNearest > CallThreshold2 => ret.value.trust_score = 0
    /\ \A s \in PosPool, e \in PosPool :
           OtherNearest(s, e) >= CallNearest =>
               OtherMatch(s, e).trust_score <= ret.value.trust_score

\* No jump: two nearest distances that differ by x metres have trust scores
\* that differ by at most 25 x / th, the slope of the formula (one hundredth
\* is allowed for the rounding of each score).
TrustNoJump ==
    \A s \in PosPool, e \in PosPool :
        Abs(OtherMatch(s, e).trust_score - ret.value.trust_score) * CallThreshold2
            <= 2500 * Abs(OtherNearest(s, e) - CallNearest) + 2 * CallThreshold2

\* C12 as stated: non-increasing, 0 beyond the threshold, and falling to 0 at
\* the threshold without a jump.
C12_AsStated ==
    MatchedNonEmpty =>
        /\ TrustMonotone
        /\ CallNearest = CallThreshold2 => ret.value.trust_score = 0
        /\ TrustNoJump

\* C12: the trust score is 30 at distance 0, does not increase with the
\* distance, stays at or above 5 up to the threshold, where it is exactly 5, and
\* is 0 beyond the threshold: it drops from 5 to 0 right after the threshold.
\* Up to the threshold it changes by at most 25 x / th over x metres.
C12_TrustProfile ==
    MatchedNonEmpty =>
        /\ TrustMonotone
        /\ CallNearest = 0 => ret.value.trust_score = TRUST_MAX
        /\ CallNearest <= CallThreshold2 =>
               /\ ret.value.trust_score >= TRUST_MIN
               /\ ret.value.trust_score <= TRUST_MAX
        /\ CallNearest = CallThreshold2 => ret.value.trust_score = TRUST_MIN
        /\ \A s \in PosPool, e \in PosPool :
               CallNearest <= CallThreshold2 /\ OtherNearest(s, e) <= CallThreshold2 =>
                   Abs(OtherMatch(s, e).trust_score - ret.value.trust_score)
                           * CallThreshold2
                       <= 2500 * Abs(OtherNearest(s, e) - CallNearest)
                          + 2 * CallThreshold2

\* A candidate at the threshold with trust 5.0, and another one against the
\* same index at most 10 m farther with trust 0: the drop at the threshold.
C12_Witness ==
    /\ MatchedNonEmpty
    /\ CallNearest = CallThreshold2
    /\ ret.value.trust_score = TRUST_MIN
    /\ \E s \in PosPool, e \in PosPool :
           /\ OtherNearest(s, e) > CallNearest
           /\ OtherNearest(s, e) <= CallNearest + 200
           /\ OtherMatch(s, e).trust_score = 0

\* The positions of the records at the smallest distance from the candidate.
NearestPositions ==
    { i \in 1 .. Len(call.official_index) :
          RecordDistance(call.course_start, call.course_end, call.official_index[i])
              = CallNearest }

\* C18: with a non-empty index the reported distance is the minimum over the
\* records of min(forward, reversed), rounded to 0.1 m, the reported name is
\* that of the first record at this minimum, and both are reported whether
\* the candidate matched or not.
C18_NearestReported ==
    MatchedNonEmpty =>
        LET first == CHOOSE i \in NearestPositions : \A j \in NearestPositions : i <= j
        IN  /\ ret.value.nearest_m = Some(RoundDiv(CallNearest, 2))
            /\ ret.value.official_name = Some(call.official_index[first].name)

\* No match, and two records with different names at the same smallest
\* distance: the name reported is the first one's.
C18_Witness ==
    /\ MatchedNonEmpty
    /\ ~ret.value.matched
    /\ Cardinality(NearestPositions) = 2
    /\ call.official_index[1].name # call.official_index[2].name
    /\ ret.value.official_name = Some(call.official_index[1].name)
    /\ ret.value.nearest_m = Some(RoundDiv(CallNearest, 2))

\* C19: whatever integers the setter was called with, the threshold is an
\* integer of at least 10, every call reads such a value (the trust formula's
\* divisor is not 0), and a matched trust score lies between 5 and 30.
C19_ThresholdFloor ==
    /\ OFFICIAL_MATCH_THRESHOLD_M \in Int
    /\ OFFICIAL_MATCH_THRESHOLD_M >= 10
    /\ MatchReturned =>
           /\ ret.th >= 10
           /\ ret.value.matched =>
                  /\ ret.value.trust_score >= TRUST_MIN
                  /\ ret.value.trust_score <= TRUST_MAX

\* The setter was called with 0 or a negative value (no argument of the pool
\* is 10), and a call that read the clamped threshold matched.
C19_Witness ==
    /\ 10 \notin ThresholdArgs
    /\ MatchReturned
    /\ ret.th = 10
    /\ ret.value.matched
    /\ OFFICIAL_MATCH_THRESHOLD_M = 10

-----------------------------------------------------------------------------
(* Claims about overpass_post (checked under SpecOverpass) *)

RequestBudget == Len(OVERPASS_URLS) * max_retries

\* C2: overpass_post returns only on a response that is no 429 and passes the
\* checks; when every attempt is a 429 or raises, it stops after at most
\* len(OVERPASS_URLS) x max_retries requests by raising, never by returning a
\* value, and build_courses lets the exception through instead of returning a
\* list.
C2_FailureRaises ==
    /\ requests <= RequestBudget
    /\ pc = "request" => requests < RequestBudget
    /\ pc = "returned" => ev.kind = "ok" /\ outcome.kind = "return"
    /\ outcome.kind = "return" => pc = "returned" /\ ev.kind = "ok"
    /\ pc = "raised" =>
          /\ requests = RequestBudget
          /\ ev.kind # "ok"
          /\ outcome.kind = "raise"
          /\ outcome.exc \in FailurePool \cup {"OverflowError", "RuntimeError"}
          /\ outcome.exc = "RuntimeError" <=> last_err = "None"

\* build_courses' fetch used up every endpoint on 429 responses alone and
\* build_courses raised.
C2_Witness ==
    /\ caller = "build_courses"
    /\ pc = "raised"
    /\ requests = Len(OVERPASS_URLS) * DEFAULT_MAX_RETRIES
    /\ last_err = "None"
    /\ outcome = Raise("RuntimeError")

\* The number of seconds a Retry-After header asks for (0 when it gives none)
RetryAfterSeconds(ra) == IF ra.kind = "seconds" THEN ra.v ELSE 0

\* C3 as stated: the sleep after a 429 is never more than 20 s, whatever
\* Retry-After says; it is 2 s on an endpoint's first attempt and twice the
\* previous one (at most 20 s) after a 429 that follows a 429 (read as: at
\* least so when the response carries Retry-After).
C3_AsStated ==
    ev.kind = "429" =>
        /\ ev.slept <= WAIT_CAP_429
        /\ ev.attempt = 0 => ev.slept >= WAIT_START
        /\ ev.prev_kind = "429" => ev.slept >= Min(2 * ev.prev_slept, WAIT_CAP_429)

\* C3, amended: the backoff wait is 2 s on an endpoint's first attempt, after
\* a 429 twice the time just slept but at most 20 s, and never above 20 s; the
\* sleep after a 429 is the larger of that wait and the number of seconds of
\* Retry-After, so it is above 20 s exactly when Retry-After is.
C3_Backoff429 ==
    /\ wait_s <= WAIT_CAP_429
    /\ ev.kind = "429" =>
          /\ ev.attempt = 0 => ev.wait_before = WAIT_START
          /\ ev.prev_kind = "429" =>
                 ev.wait_before = Min(2 * ev.prev_slept, WAIT_CAP_429)
          /\ ev.wait_before <= WAIT_CAP_429
          /\ ev.slept = Max(ev.wait_before, RetryAfterSeconds(ev.ra))
          /\ ev.slept > WAIT_CAP_429 <=> RetryAfterSeconds(ev.ra) > WAIT_CAP_429

\* A 429 that follows a 429 on the same endpoint and carries Retry-After: 30
\* is slept for 30 s.
C3_Witness ==
    /\ ev.kind = "429"
    /\ ev.prev_kind = "429"
    /\ ev.ra = [kind |-> "seconds", v |-> 300000]
    /\ ev.slept = 300000

\* C4 as stated: the sleep after a failure that is no 429 is one fixed
\* duration, the same for every such failure of the call whatever preceded
\* it, and not longer than the 429 backoff at that point.
C4_AsStated ==
    ev.kind = "error" =>
        /\ ev.slept = err_sleep_first
        /\ ev.slept <= ev.wait_before

\* C4, amended: the sleep after a failure that is no 429 is min(backoff wait,
\* 10 s): 2 s on an endpoint's first attempt, longer after failures (wait x
\* 1.6, at most 15 s) and 429 responses (x 2, at most 20 s) on the same
\* endpoint, never above 10 s and never above the backoff wait a 429 would
\* have slept at that point.
C4_ErrorBackoff ==
    ev.kind = "error" =>
        /\ ev.slept = Min(ev.wait_before, ERR_SLEEP_CAP)
        /\ ev.slept >= WAIT_START
        /\ ev.slept <= ERR_SLEEP_CAP
        /\ ev.slept <= ev.wait_before
        /\ ev.attempt = 0 => ev.slept = WAIT_START
        /\ (ev.prev_kind = "error" /\ ev.prev_slept < ERR_SLEEP_CAP) =>
               ev.slept = Min((ev.prev_slept * 16) \div 10, ERR_SLEEP_CAP)
        /\ ev.prev_kind = "429" =>
               ev.slept = Min(2 * ev.prev_slept, ERR_SLEEP_CAP)

\* A second failure in a row on one endpoint sleeps 3.2 s, not the 2 s the
\* first failure of the call slept.
C4_Witness ==
    /\ ev.kind = "error"
    /\ ev.prev_kind = "error"
    /\ err_sleep_first = WAIT_START
    /\ ev.slept = 32000

\* The endpoint and the retry iteration of the k-th request (k = 1, 2, ...)
\* when the endpoints are used in order, max_retries requests each.
EndpointOfRequest(k) == ((k - 1) \div max_retries) + 1

AttemptOfRequest(k) == (k - 1) % max_retries

\* C17: the k-th request goes to endpoint ceil(k / max_retries) of
\* OVERPASS_URLS: endpoint i + 1 gets its first request right after the
\* max_retries-th failed attempt (429 or error) on endpoint i, no request goes
\* back to an earlier endpoint, and the first attempt on every endpoint finds
\* the backoff at 2 s.
C17_EndpointOrder ==
    /\ base \in 1 .. Len(OVERPASS_URLS)
    /\ ev.kind = "none" <=> requests = 0
    /\ requests > 0 =>
           /\ ev.base = EndpointOfRequest(requests)
           /\ ev.attempt = AttemptOfRequest(requests)
           /\ ev.attempt = 0 => ev.wait_before = WAIT_START
           /\ ev.attempt > 0 => ev.prev_kind \in {"429", "429-overflow", "error"}
    /\ pc = "request" =>
           /\ base = EndpointOfRequest(requests + 1)
           /\ attempt = AttemptOfRequest(requests + 1)
           /\ attempt = 0 => wait_s = WAIT_START
           /\ requests > 0 => ev.kind \in {"429", "429-overflow", "error"}

\* The client has moved to the second endpoint after max_retries >= 2
\* requests to the first, the last of them a 429 that slept more than 2 s,
\* and the backoff is back at 2 s.
C17_Witness ==
    /\ pc = "request"
    /\ max_retries >= 2
    /\ base = 2
    /\ attempt = 0
    /\ requests = max_retries
    /\ ev.kind = "429"
    /\ ev.base = 1
    /\ ev.slept > WAIT_START
    /\ wait_s = WAIT_START

-----------------------------------------------------------------------------
(* Claims about ors_elevation_line (checked under SpecElevation) *)

ElevationSent == call.fn = "ors_elevation_line" /\ ret.done /\ ret.sent # None

SentCoords == ret.sent[1]

InputPolyline == Polyline(call.n, call.shape)

\* C20 as stated: the list sent to the service has at most ORS_MAX_VERTICES
\* points, starts with the first input point, ends with the last one, and
\* holds input points in the input's order.
C20_AsStated ==
    ElevationSent =>
        /\ Len(SentCoords) <= ORS_MAX_VERTICES
        /\ call.n > 0 =>
               /\ Len(SentCoords) > 0
               /\ SentCoords[1] = <<InputPolyline[1][2], InputPolyline[1][1]>>
               /\ SentCoords[Len(SentCoords)]
                      = <<InputPolyline[call.n][2], InputPolyline[call.n][1]>>
        /\ \A k \in 1 .. Len(SentCoords) :
               /\ SentCoords[k][1] = 7
               /\ SentCoords[k][2] \in 1 .. call.n
               /\ k > 1 => SentCoords[k - 1][2] <= SentCoords[k][2]

\* What does hold of the sample: first, last and order as stated, and fewer
\* than twice max_points points.
SampleShape ==
    ElevationSent =>
        /\ Len(SentCoords) < 2 * ElevationMaxPoints
        /\ call.n > 0 =>
               /\ SentCoords[1] = <<InputPolyline[1][2], InputPolyline[1][1]>>
               /\ SentCoords[Len(SentCoords)]
                      = <<InputPolyline[call.n][2], InputPolyline[call.n][1]>>
        /\ \A k \in 2 .. Len(SentCoords) : SentCoords[k - 1][2] <= SentCoords[k][2]

\* A polyline of more than ORS_MAX_VERTICES points sent whole.
SampleTooLong ==
    /\ ElevationSent
    /\ call.n > ORS_MAX_VERTICES
    /\ Len(SentCoords) = call.n

-----------------------------------------------------------------------------
(* Claims about load_official_gpx_index and the runs that use its index *)
(* (checked under SpecPipeline)                                          *)

IndexLoaded == call.fn = "load_official_gpx_index" /\ "loaded" \in DOMAIN ret

DirFiles == call.data_dir.gpx_files

\* The file carries bounds metadata with at least one attribute.
HasBoundsMetadata(f) ==
    /\ f.metadata # None
    /\ f.metadata[1].bounds # None
    /\ DOMAIN f.metadata[1].bounds[1] # {}

IsNumber(attrib, k) == k \in DOMAIN attrib /\ attrib[k] # None

\* The file has a first track segment of at least 2 points whose first and
\* last point carry numeric coordinates.
HasTrackEndpoints(f) ==
    /\ f.trk # None
    /\ f.trk[1].trkseg # None
    /\ LET pts == f.trk[1].trkseg[1]
       IN  /\ Len(pts) >= 2
           /\ \A k \in {"lat", "lon"} :
                  IsNumber(pts[1], k) /\ IsNumber(pts[Len(pts)], k)

\* The file parses, with usable bounds and at least 2 track points.
Usable(f) ==
    /\ f.parses
    /\ HasBoundsMetadata(f)
    /\ \A k \in {"minlat", "minlon", "maxlat", "maxlon"} :
           IsNumber(f.metadata[1].bounds[1], k)
    /\ HasTrackEndpoints(f)

\* (south, west, north, east) as the metadata of a usable file declares it
MetadataBox(f) ==
    LET b == f.metadata[1].bounds[1]
    IN  <<b.minlat[1], b.minlon[1], b.maxlat[1], b.maxlon[1]>>

\* The two boxes share a point.
Overlap(b1, b2) ==
    b1[1] <= b2[3] /\ b2[1] <= b1[3] /\ b1[2] <= b2[4] /\ b2[2] <= b1[4]

\* The positions of the files that qualify for the index.
Qualified ==
    { i \in 1 .. Len(DirFiles) :
          /\ Usable(DirFiles[i])
          /\ call.bbox # None => Overlap(call.bbox[1], MetadataBox(DirFiles[i])) }

\* C14: the loader returns (it raises for no file), and the index holds, in
\* traversal order, the records of the first max_files files that parse with
\* usable bounds and track endpoints and pass the filter when one is given;
\* it never holds more than max_files records.
C14_LoaderSkipsAndCaps ==
    IndexLoaded /\ call.data_dir.exists =>
        /\ ret.loaded.kind = "return"
        /\ LET out == ret.loaded.value
           IN  /\ Len(out) <= call.max_files
               /\ Len(out) = Min(Cardinality(Qualified), call.max_files)
               /\ \A k \in 1 .. Len(out) :
                      LET f == DirFiles[KthPosition(Qualified, k)]
                          pts == f.trk[1].trkseg[1]
                      IN  /\ out[k].path = f.path
                          /\ out[k].bbox = MetadataBox(f)
                          /\ out[k].start_lat = pts[1].lat[1]
                          /\ out[k].end_lat = pts[Len(pts)].lat[1]

\* A filter is given; the first file is unusable, the next two qualify, and
\* with a cap of 1 the index holds the second file's record only.
C14_Witness ==
    /\ IndexLoaded
    /\ call.bbox # None
    /\ call.max_files = 1
    /\ Len(DirFiles) = 3
    /\ ~Usable(DirFiles[1])
    /\ Qualified = {2, 3}
    /\ ret.loaded.kind = "return"
    /\ Len(ret.loaded.value) = 1
    /\ ret.loaded.value[1].path = DirFiles[2].path

\* The file parses and has a track with endpoints, but no bounds metadata.
TrackWithoutBounds(f) == f.parses /\ HasTrackEndpoints(f) /\ ~HasBoundsMetadata(f)

\* The extremes of the track's points, as (south, west, north, east)
PointExtremes(f) ==
    LET pts == f.trk[1].trkseg[1]
        lats == { pts[i].lat[1] : i \in 1 .. Len(pts) }
        lons == { pts[i].lon[1] : i \in 1 .. Len(pts) }
    IN  <<CHOOSE x \in lats : \A y \in lats : x <= y,
          CHOOSE x \in lons : \A y \in lons : x <= y,
          CHOOSE x \in lats : \A y \in lats : x >= y,
          CHOOSE x \in lons : \A y \in lons : x >= y>>

\* C13 as stated: with no filter and a cap that leaves every file its place,
\* a parsable file with at least 2 track points and no bounds metadata has a
\* record in the index, its box computed from the track points.
C13_AsStated ==
    IndexLoaded /\ call.data_dir.exists /\ call.bbox = None
        /\ call.max_files >= Len(DirFiles) =>
        \A i \in 1 .. Len(DirFiles) :
            TrackWithoutBounds(DirFiles[i]) =>
                \E k \in 1 .. Len(ret.loaded.value) :
                    /\ ret.loaded.value[k].path = DirFiles[i].path
                    /\ ret.loaded.value[k].bbox = PointExtremes(DirFiles[i])

\* C13: a file without bounds metadata has no record in the index, whatever
\* its track; the box of every record is the one its file's metadata declares.
C13_BoundsFromMetadataOnly ==
    IndexLoaded /\ call.data_dir.exists =>
        /\ \A i \in 1 .. Len(DirFiles) :
               ~HasBoundsMetadata(DirFiles[i]) =>
                   \A k \in 1 .. Len(ret.loaded.value) :
                       ret.loaded.value[k].path # DirFiles[i].path
        /\ \A k \in 1 .. Len(ret.loaded.value) :
               \E i \in 1 .. Len(DirFiles) :
                   /\ DirFiles[i].path = ret.loaded.value[k].path
                   /\ HasBoundsMetadata(DirFiles[i])
                   /\ ret.loaded.value[k].bbox = MetadataBox(DirFiles[i])

\* No filter, no binding cap: the file with a 2-point track and no metadata
\* is left out of an index that holds the record of the file after it.
C13_Witness ==
    /\ IndexLoaded
    /\ call.bbox = None
    /\ call.max_files >= Len(DirFiles)
    /\ Len(DirFiles) >= 2
    /\ TrackWithoutBounds(DirFiles[1])
    /\ Len(ret.loaded.value) = 1
    /\ ret.loaded.value[1].path = DirFiles[2].path

\* The run is over: build_courses returned
RunBuilt == call.fn = "load_official_gpx_index" /\ ret.done

\* The course carries nothing of an authoritative track.
NoTrust(c) ==
    /\ c.trust_score = 0
    /\ ~c.official_matched
    /\ c.official_nearest_m = None
    /\ c.official_name = None
    /\ c.score = c.score_osm

\* C16: for a missing directory the loader returns the empty index, it
\* raises for no directory, and a run with an empty index or with none
\* (cached_courses) gives every course trust 0, no match, no nearest
\* distance, no matched name and its structural score as final score.
C16_MissingDirectory ==
    /\ IndexLoaded => ret.loaded.kind = "return"
    /\ IndexLoaded /\ ~call.data_dir.exists => ret.loaded = Return(<< >>)
    /\ RunBuilt /\ (~IndexLoaded \/ ret.loaded.value = << >>) =>
           \A k \in 1 .. Len(ret.value) : NoTrust(ret.value[k])

\* The directory is missing, the run went on with the empty index and built
\* both courses.
C16_Witness ==
    /\ RunBuilt
    /\ IndexLoaded
    /\ ~call.data_dir.exists
    /\ ret.loaded = Return(<< >>)
    /\ Len(ret.value) = 2
    /\ \A k \in 1 .. 2 : NoTrust(ret.value[k])

-----------------------------------------------------------------------------
(* Claims about the threshold during a build_courses run (checked under *)
(* SpecRun)                                                             *)

RunStarted == call.fn = "build_courses_run"

\* Every course of the list carries the trust score that the threshold th
\* gives it.
TrustExplainedBy(courses, th) ==
    \A k \in 1 .. Len(courses) :
        courses[k].trust_score =
            match_official_by_endpoints(<<courses[k].start_lat, courses[k].start_lon>>,
                                        <<courses[k].end_lat, courses[k].end_lon>>,
                                        call.official_index, th).trust_score

\* C15 as stated: all the matches of one run read the same value of the
\* threshold, so that one threshold accounts for the trust score of every
\* course of the run, whenever the setter is called.
C15_AsStated ==
    RunStarted =>
        /\ \A i, j \in 1 .. Len(ret.reads) : ret.reads[i] = ret.reads[j]
        /\ \E th \in { set_official_match_threshold(a) : a \in RunThresholdArgs } :
               TrustExplainedBy(ret.courses, th)

\* A returned run whose first course was matched under 250 m (trust 22.0)
\* and whose second course, 150 m from its track, got trust 0 under 100 m.
RunMixedThresholds ==
    /\ RunStarted
    /\ ret.done
    /\ ret.reads = <<250, 100>>
    /\ Len(ret.value) = 2
    /\ ret.value[1].trust_score = 2200
    /\ ret.value[2].trust_score = 0
    /\ ~ret.value[2].official_matched

\* A match reads the value the global has at that moment: the reads of a run
\* differ only if the setter changed the global between two of them.
ReadsFollowGlobal ==
    [][RunStarted /\ Len(ret'.reads) > Len(ret.reads) =>
           /\ ret'.reads = Append(ret.reads, OFFICIAL_MATCH_THRESHOLD_M)
           /\ OFFICIAL_MATCH_THRESHOLD_M' = OFFICIAL_MATCH_THRESHOLD_M]_vars


=============================================================================
